---------------------------- MODULE Spec2Model ----------------------------
(***************************************************************************)
(* Change-data-capture pipeline of the repository:                         *)
(*                                                                         *)
(*   employees (db1) --trigger--> emp_cdc --producer.py--> Kafka topic     *)
(*        --consumer.py--> employees (db2)                                 *)
(*                                                                         *)
(* The specifications below share the variables:                           *)
(*   Spec       the whole pipeline (source statements, trigger, tailer     *)
(*              loop, topic, consumer loop, apply engine), with database   *)
(*              errors and consumer restarts;                              *)
(*   FairSpec   the pipeline with no failures, under weak fairness of the  *)
(*              tailer loop and of the consumer loop;                      *)
(*   SpecTailer the source statements and the tailer loop alone, with      *)
(*              query failures and failed deliveries, keeping the history  *)
(*              of the scans;                                              *)
(*   SpecCommit the pipeline with poll() and processing_func as two steps  *)
(*              of the consumer, commits at any time and restarts;         *)
(*   SpecFaults the pipeline with every failure of the two loops: failed   *)
(*              deliveries, exceptions that leave the loops, interrupts,   *)
(*              and the connections each unit of work opens;               *)
(*   SpecApply  CDCConsumer.consume_cdc fed with one or two arbitrary      *)
(*              messages, from an arbitrary destination table;             *)
(*   SpecReplay the pipeline with no failures, where the producer process  *)
(*              ends and is started again;                                 *)
(*   SpecVisibility the tailer loop on a source whose transactions commit  *)
(*              in any order;                                              *)
(*   SpecRekey  the pipeline with no failures, where source UPDATEs can    *)
(*              change emp_id.                                             *)
(***************************************************************************)
EXTENDS Integers, Sequences, FiniteSets, TLC

VARIABLES
    employees_db1,   \* source table employees: emp_id -> row
    emp_cdc,         \* change log of db1, a sequence of rows in insertion order
    in_flight,       \* rows of emp_cdc written by transactions not yet committed
    last_offset,     \* CDCDataHandler.last_offset
    new_records,     \* records of the current batch not yet produced
    tailer_pc,       \* position of the producer's polling loop
    published,       \* history: cdc_ids handed to producer.produce, in order
    scans,           \* history: the last two calls of get_new_cdc_records
    lost,            \* history: cdc_ids whose delivery report carried an error
    tailer_open,     \* connections to db1 opened by the tailer and not closed
    tailer_restarts, \* number of times the producer process was started again
    topic,           \* messages of the topic, per key, in partition order
    position,        \* consumer's next offset to fetch, per key
    committed,       \* consumer group's committed offset, per key
    employees_db2,   \* destination table employees: emp_id -> row
    incoming,        \* messages the broker hands to poll() next (SpecApply)
    consumer_pc,     \* position of consume_cdc's loop
    in_hand,         \* the message poll() returned, while it is processed
    consumer_open,   \* connections to db2 opened by the engine and not closed
    printed,         \* history: lines printed by the last process_message
    before,          \* history: employees_db2 before the last process_message
    handled,         \* history: the last two calls of process_message
    apply_errors     \* history: has any process_message call hit an error

vars == <<employees_db1, emp_cdc, in_flight, last_offset, new_records,
          tailer_pc, published, scans, lost, tailer_open, tailer_restarts,
          topic, position, committed,
          employees_db2, incoming, consumer_pc, in_hand, consumer_open,
          printed, before, handled, apply_errors>>

sourceVars   == <<employees_db1, emp_cdc, in_flight>>
tailerVars   == <<last_offset, new_records, tailer_pc, published, scans,
                  lost, tailer_open, tailer_restarts>>
consumerVars == <<position, committed, employees_db2, incoming, consumer_pc,
                  in_hand, consumer_open, printed, before, handled,
                  apply_errors>>

----------------------------------------------------------------------------
(* Bounds of the model *)

MaxKey == 2
MaxLog == 3
MaxOpen == 1
MaxRestarts == 1

Keys == 1..MaxKey

----------------------------------------------------------------------------
(* Values *)

\* A value of a DATE column: NULL, or the date with the given ISO text.
NullDate == [null |-> TRUE, iso |-> ""]
Date(s) == [null |-> FALSE, iso |-> s]

\* Attribute rows (the columns of employees other than emp_id).
JohnDoe75 == [first_name |-> "John", last_name |-> "Doe",
              dob |-> Date("1990-05-15"), city |-> "New York", salary |-> 75000]
JohnDoe85 == [JohnDoe75 EXCEPT !.salary = 85000]
NoDob1000 == [first_name |-> "Ann", last_name |-> "Lee",
              dob |-> NullDate, city |-> "Oslo", salary |-> 1000]
Dob2000 == [first_name |-> "Ann", last_name |-> "Lee",
            dob |-> Date("1985-08-22"), city |-> "Oslo", salary |-> 2000]

\* Rows the source statements write, and rows arbitrary messages carry.
SourceAttrs == {JohnDoe75, JohnDoe85}
EventAttrs == {NoDob1000, Dob2000}

\* Tables are functions from the primary keys present to attribute rows.
EmptyTable == [k \in {} |-> JohnDoe75]
Put(table, k, row) ==
    [x \in (DOMAIN table) \cup {k} |-> IF x = k THEN row ELSE table[x]]
Remove(table, k) == [x \in (DOMAIN table) \ {k} |-> table[x]]
TablesOver(attrs) ==
    UNION {[ks -> attrs] : ks \in SUBSET Keys}

----------------------------------------------------------------------------
(* employee.py: CDCRecord and its JSON form *)

CDCRecordFields == {"cdc_id", "emp_id", "first_name", "last_name", "dob",
                    "city", "salary", "action"}

\* CDCRecord.__init__ defaults.
CDCRecordDefaults ==
    [cdc_id |-> 0, emp_id |-> 0, first_name |-> "", last_name |-> "",
     dob |-> "", city |-> "", salary |-> 0, action |-> ""]

\* json.dumps(self.__dict__): a JSON object with one member per attribute.
to_json(record) == [kind |-> "object", members |-> record]

\* Mutant: members that are no parameter of __init__ are ignored.
from_json_raises_lenient(value) == value.kind # "object"

\* json.loads raises on text that is no JSON; CDCRecord(**data) raises on a
\* member that is no parameter of __init__.
from_json_raises(value) ==
    \/ value.kind # "object"
    \/ ~ (DOMAIN value.members \subseteq CDCRecordFields)

\* CDCRecord(**data): absent members take the defaults.
from_json(value) ==
    [f \in CDCRecordFields |->
        IF f \in DOMAIN value.members THEN value.members[f]
                                      ELSE CDCRecordDefaults[f]]


----------------------------------------------------------------------------
(* consumer.py: CDCProcessor, the apply engine *)

\* Points at which the destination database can raise during one call.
FailPoints == {"none", "connect", "cursor", "execute", "fallback"}

\* The parameters bound to the attribute columns; a DATE column takes the
\* text it is given, and NULL for None.
ParamRow(record) ==
    [first_name |-> record.first_name,
     last_name  |-> record.last_name,
     dob        |-> IF record.dob = "" THEN NullDate ELSE Date(record.dob),
     city       |-> record.city,
     salary     |-> record.salary]

\* Mutant: ON CONFLICT ... SET salary = employees.salary + EXCLUDED.salary.
handle_insert_accumulating(db, record, raises) ==
    IF raises
    THEN [db |-> db, printed |-> <<"Error on INSERT">>]
    ELSE IF record.emp_id \in DOMAIN db
    THEN [db |-> [db EXCEPT ![record.emp_id] =
                    [ParamRow(record) EXCEPT
                        !.salary = db[record.emp_id].salary + record.salary]],
          printed |-> <<"INSERT applied">>]
    ELSE [db |-> Put(db, record.emp_id, ParamRow(record)),
          printed |-> <<"INSERT applied">>]

\* Mutant: a plain INSERT, which raises on a primary-key conflict.
handle_insert_no_upsert(db, record, raises) ==
    IF raises \/ record.emp_id \in DOMAIN db
    THEN [db |-> db, printed |-> <<"Error on INSERT">>]
    ELSE [db |-> Put(db, record.emp_id, ParamRow(record)),
          printed |-> <<"INSERT applied">>]

\* Mutant: ON CONFLICT (emp_id) DO NOTHING.
handle_insert_keeps_existing(db, record, raises) ==
    IF raises
    THEN [db |-> db, printed |-> <<"Error on INSERT">>]
    ELSE IF record.emp_id \in DOMAIN db
    THEN [db |-> db, printed |-> <<"INSERT applied">>]
    ELSE [db |-> Put(db, record.emp_id, ParamRow(record)),
          printed |-> <<"INSERT applied">>]

\* INSERT ... ON CONFLICT (emp_id) DO UPDATE SET <every attribute> = EXCLUDED.
handle_insert(db, record, raises) ==
    IF raises
    THEN [db |-> db, printed |-> <<"Error on INSERT">>]
    ELSE IF record.emp_id \in DOMAIN db
    THEN [db |-> [db EXCEPT ![record.emp_id] = ParamRow(record)],
          printed |-> <<"INSERT applied">>]
    ELSE [db |-> Put(db, record.emp_id, ParamRow(record)),
          printed |-> <<"INSERT applied">>]

\* Mutant: the SET clause leaves salary out.
handle_update_keeps_salary(db, record, fail) ==
    IF fail = "execute"
    THEN [db |-> db, printed |-> <<"Error on UPDATE">>]
    ELSE IF record.emp_id \notin DOMAIN db
    THEN LET ins == handle_insert(db, record, fail = "fallback")
         IN  [db |-> ins.db,
              printed |-> ins.printed \o <<"UPDATE not found, inserted instead">>]
    ELSE [db |-> [db EXCEPT ![record.emp_id] =
                    [ParamRow(record) EXCEPT !.salary = db[record.emp_id].salary]],
          printed |-> <<"UPDATE applied">>]

\* Mutant: no insert when the UPDATE affects zero rows.
handle_update_no_fallback(db, record, fail) ==
    IF fail = "execute"
    THEN [db |-> db, printed |-> <<"Error on UPDATE">>]
    ELSE IF record.emp_id \notin DOMAIN db
    THEN [db |-> db, printed |-> <<"UPDATE applied">>]
    ELSE [db |-> [db EXCEPT ![record.emp_id] = ParamRow(record)],
          printed |-> <<"UPDATE applied">>]

\* UPDATE ... WHERE emp_id; on rowcount 0 the record goes to _handle_insert.
handle_update(db, record, fail) ==
    IF fail = "execute"
    THEN [db |-> db, printed |-> <<"Error on UPDATE">>]
    ELSE IF record.emp_id \notin DOMAIN db
    THEN LET ins == handle_insert(db, record, fail = "fallback")
         IN  [db |-> ins.db,
              printed |-> ins.printed \o <<"UPDATE not found, inserted instead">>]
    ELSE [db |-> [db EXCEPT ![record.emp_id] = ParamRow(record)],
          printed |-> <<"UPDATE applied">>]

\* Mutant: rowcount 0 is raised as an error.
handle_delete_strict(db, record, fail) ==
    IF fail = "execute" \/ record.emp_id \notin DOMAIN db
    THEN [db |-> db, printed |-> <<"Error on DELETE">>]
    ELSE [db |-> Remove(db, record.emp_id), printed |-> <<"DELETE applied">>]

\* Mutant: the statement takes effect and the error is raised after it.
handle_delete_raises_late(db, record, fail) ==
    IF record.emp_id \in DOMAIN db
    THEN [db |-> Remove(db, record.emp_id),
          printed |-> IF fail = "execute" THEN <<"Error on DELETE">>
                                          ELSE <<"DELETE applied">>]
    ELSE [db |-> db,
          printed |-> IF fail = "execute" THEN <<"Error on DELETE">>
                                          ELSE <<"DELETE not found">>]

\* Mutant: the DELETE has no WHERE clause.
handle_delete_every_row(db, record, fail) ==
    IF fail = "execute"
    THEN [db |-> db, printed |-> <<"Error on DELETE">>]
    ELSE IF record.emp_id \in DOMAIN db
    THEN [db |-> EmptyTable, printed |-> <<"DELETE applied">>]
    ELSE [db |-> db, printed |-> <<"DELETE not found">>]

\* DELETE ... WHERE emp_id; rowcount 0 is reported, not raised.
handle_delete(db, record, fail) ==
    IF fail = "execute"
    THEN [db |-> db, printed |-> <<"Error on DELETE">>]
    ELSE IF record.emp_id \in DOMAIN db
    THEN [db |-> Remove(db, record.emp_id), printed |-> <<"DELETE applied">>]
    ELSE [db |-> db, printed |-> <<"DELETE not found">>]

\* Mutant: the last branch of the chain takes every other action as DELETE.
dispatch_else_delete(db, record, fail) ==
    IF record.action = "INSERT" THEN handle_insert(db, record, fail = "execute")
    ELSE IF record.action = "UPDATE" THEN handle_update(db, record, fail)
    ELSE handle_delete(db, record, fail)

\* The dispatch on cdc_record.action, with the cursor open.
dispatch(db, record, fail) ==
    IF record.action = "INSERT" THEN handle_insert(db, record, fail = "execute")
    ELSE IF record.action = "UPDATE" THEN handle_update(db, record, fail)
    ELSE IF record.action = "DELETE" THEN handle_delete(db, record, fail)
    ELSE [db |-> db, printed |-> <<"Unknown action">>]

\* process_message: parse, connect, dispatch; every exception is caught.
process_message(db, value, fail) ==
    IF from_json_raises(value) \/ fail \in {"connect", "cursor"}
    THEN [db |-> db, printed |-> <<"Error processing message">>]
    ELSE dispatch(db, from_json(value), fail)

\* The connections one call of process_message can leave open: it closes
\* its connection on the path that reaches conn.close(); an exception
\* between get_connection and conn.close() skips the close, and the
\* connection stays open unless the interpreter finalises the object.
apply_connections(value, fail) ==
    IF from_json_raises(value) \/ fail = "connect" THEN {0}
    ELSE IF fail = "cursor" THEN {0, 1}
    ELSE {0}

\* Lines that report a caught exception.
ErrorLines == {"Error processing message", "Error on INSERT",
               "Error on UPDATE", "Error on DELETE"}
HasError(lines) == \E i \in 1..Len(lines) : lines[i] \in ErrorLines

\* The failure points that can occur on the path this message takes.
FailPointsOf(db, value) ==
    IF from_json_raises(value) THEN {"none"}
    ELSE LET record == from_json(value) IN
         {"none", "connect", "cursor"}
         \cup (IF record.action \in {"INSERT", "UPDATE", "DELETE"}
               THEN {"execute"} ELSE {})
         \cup (IF record.action = "UPDATE" /\ record.emp_id \notin DOMAIN db
               THEN {"fallback"} ELSE {})

----------------------------------------------------------------------------
(* producer.py: the mapping of a change-log row to a CDCRecord *)

\* Mutant: the dob is str(row[4]) whatever the column holds, so a NULL dob
\* goes on the wire as the text "None".
record_of_row_str_always(row) ==
    [cdc_id     |-> row.cdc_id,
     emp_id     |-> row.emp_id,
     first_name |-> row.first_name,
     last_name  |-> row.last_name,
     dob        |-> IF row.dob.null THEN "None" ELSE row.dob.iso,
     city       |-> row.city,
     salary     |-> row.salary,
     action     |-> row.action]

\* CDCRecord(cdc_id=row[0], ..., dob=str(row[4]) if row[4] else '', ...)
record_of_row(row) ==
    [cdc_id     |-> row.cdc_id,
     emp_id     |-> row.emp_id,
     first_name |-> row.first_name,
     last_name  |-> row.last_name,
     dob        |-> IF row.dob.null THEN "" ELSE row.dob.iso,
     city       |-> row.city,
     salary     |-> row.salary,
     action     |-> row.action]

\* A row of emp_cdc.
CdcRow(id, k, attrs, action) ==
    [cdc_id |-> id, emp_id |-> k, first_name |-> attrs.first_name,
     last_name |-> attrs.last_name, dob |-> attrs.dob, city |-> attrs.city,
     salary |-> attrs.salary, action |-> action]

\* The attributes a change-log row carries.
AttrsOf(row) ==
    [first_name |-> row.first_name, last_name |-> row.last_name,
     dob |-> row.dob, city |-> row.city, salary |-> row.salary]

\* producer.produce(topic, key=str(record.emp_id), value=record.to_json())
message_of(record) ==
    [key |-> ToString(record.emp_id), value |-> to_json(record)]

----------------------------------------------------------------------------
(* consumer.py: consume_cdc fed with arbitrary messages *)

\* Values a message of the topic can carry: the JSON of any CDCRecord,
\* with actions the engine knows and one it does not, and payloads that
\* from_json rejects or completes with defaults.
EventIds == {1, 2}
EventActions == {"INSERT", "UPDATE", "DELETE"}
EventRecords ==
    {record_of_row(CdcRow(id, k, attrs, action)) :
        id \in EventIds, k \in Keys, attrs \in EventAttrs,
        action \in EventActions}
    \cup {record_of_row(CdcRow(1, k, NoDob1000, "TRUNCATE")) : k \in Keys}
InvalidJson == [kind |-> "invalid", members |-> [text |-> "{"]]
UnexpectedMember ==
    [kind |-> "object", members |-> [emp_id |-> 1, operation |-> "INSERT"]]
PartialJson == [kind |-> "object", members |-> [emp_id |-> 1]]
EventValues ==
    {to_json(record) : record \in EventRecords}
    \cup {InvalidJson, UnexpectedMember, PartialJson}

\* What the broker delivers in one run: one message, or two in a row.
EventDeliveries ==
    {<<v>> : v \in EventValues} \cup (EventValues \X EventValues)

\* The last two calls, oldest first.
Remember(calls, call) ==
    IF Len(calls) < 2 THEN Append(calls, call) ELSE <<calls[2], call>>

\* processing_func(msg) of the loop.
Process(value, fail) ==
    LET out == process_message(employees_db2, value, fail) IN
    /\ employees_db2' = out.db
    /\ apply_errors' = (apply_errors \/ HasError(out.printed))

\* The history of the calls, kept where single calls are examined.
Record(value, fail) ==
    /\ printed' = process_message(employees_db2, value, fail).printed
    /\ before' = employees_db2
    /\ handled' = Remember(handled,
            [value |-> value, fail |-> fail,
             printed |-> process_message(employees_db2, value, fail).printed])

\* One iteration of the loop with a message polled.
ApplyMessage ==
    /\ consumer_pc = "poll"
    /\ incoming # <<>>
    /\ \E fail \in FailPointsOf(employees_db2, Head(incoming)) :
          Process(Head(incoming), fail) /\ Record(Head(incoming), fail)
    /\ incoming' = Tail(incoming)
    /\ UNCHANGED <<sourceVars, tailerVars, topic, position, committed,
                   consumer_pc, in_hand, consumer_open>>

\* KeyboardInterrupt in the loop: the consumer is closed.
ApplyInterrupt ==
    /\ consumer_pc = "poll"
    /\ consumer_pc' = "closed"
    /\ UNCHANGED <<sourceVars, tailerVars, topic, position, committed,
                   employees_db2, incoming, in_hand, consumer_open, printed,
                   before, handled, apply_errors>>

InitCommon ==
    /\ employees_db1 = EmptyTable
    /\ emp_cdc = <<>>
    /\ last_offset = 0
    /\ new_records = <<>>
    /\ tailer_pc = "scan"
    /\ published = <<>>
    /\ scans = <<>>
    /\ lost = {}
    /\ tailer_open = 0
    /\ tailer_restarts = 0
    /\ in_flight = {}
    /\ in_hand = <<>>
    /\ consumer_open = 0
    /\ topic = [k \in Keys |-> <<>>]
    /\ position = [k \in Keys |-> 0]
    /\ committed = [k \in Keys |-> 0]
    /\ consumer_pc = "poll"
    /\ printed = <<>>
    /\ handled = <<>>
    /\ apply_errors = FALSE

InitApply ==
    /\ InitCommon
    /\ incoming \in EventDeliveries
    /\ employees_db2 \in TablesOver(EventAttrs)
    /\ before = employees_db2

NextApply == ApplyMessage \/ ApplyInterrupt

SpecApply == InitApply /\ [][NextApply]_vars

----------------------------------------------------------------------------
(* db_setup.py: the source table, the change log and the trigger *)

\* employee_cdc_trigger_func: one row of emp_cdc per affected row, with
\* the next value of the cdc_id sequence; NEW for INSERT and UPDATE, OLD
\* for DELETE.
trigger(log, k, attrs, op) ==
    Append(log, CdcRow(Len(log) + 1, k, attrs, op))

\* INSERT INTO employees: refused by the primary key when k is present.
SourceInsert(k, attrs) ==
    /\ Len(emp_cdc) < MaxLog
    /\ k \notin DOMAIN employees_db1
    /\ employees_db1' = Put(employees_db1, k, attrs)
    /\ emp_cdc' = trigger(emp_cdc, k, attrs, "INSERT")
    /\ UNCHANGED <<in_flight, tailerVars, topic, consumerVars>>

\* UPDATE employees SET ... WHERE the row of k.
SourceUpdate(k, attrs) ==
    /\ Len(emp_cdc) < MaxLog
    /\ k \in DOMAIN employees_db1
    /\ employees_db1' = [employees_db1 EXCEPT ![k] = attrs]
    /\ emp_cdc' = trigger(emp_cdc, k, attrs, "UPDATE")
    /\ UNCHANGED <<in_flight, tailerVars, topic, consumerVars>>

\* DELETE FROM employees WHERE the row of k.
SourceDelete(k) ==
    /\ Len(emp_cdc) < MaxLog
    /\ k \in DOMAIN employees_db1
    /\ employees_db1' = Remove(employees_db1, k)
    /\ emp_cdc' = trigger(emp_cdc, k, employees_db1[k], "DELETE")
    /\ UNCHANGED <<in_flight, tailerVars, topic, consumerVars>>

SourceStatement ==
    \E k \in Keys :
        \/ \E attrs \in SourceAttrs : SourceInsert(k, attrs)
        \/ \E attrs \in SourceAttrs : SourceUpdate(k, attrs)
        \/ SourceDelete(k)

\* UPDATE employees SET emp_id = b WHERE the row of a (emp_id is the primary
\* key, not an identity column, so the statement is accepted when b is
\* free): the trigger's UPDATE branch logs NEW.emp_id, and nothing is
\* logged under OLD.emp_id.
SourceRekey(a, b) ==
    /\ Len(emp_cdc) < MaxLog
    /\ a \in DOMAIN employees_db1
    /\ b \notin DOMAIN employees_db1
    /\ employees_db1' = Put(Remove(employees_db1, a), b, employees_db1[a])
    /\ emp_cdc' = trigger(emp_cdc, b, employees_db1[a], "UPDATE")
    /\ UNCHANGED <<in_flight, tailerVars, topic, consumerVars>>

SourceRekeys == \E a, b \in Keys : SourceRekey(a, b)

\* A statement on the row of k inside a transaction not yet committed
\* (cur.execute before conn.commit): the trigger has written the row of
\* emp_cdc with the next value of the cdc_id sequence, which counts the
\* rows of every transaction, committed or not; the row of k stays locked
\* until the commit, and no other transaction sees the change or its row
\* of emp_cdc.
SourceBegin(k, attrs, op) ==
    /\ Len(emp_cdc) + Cardinality(in_flight) < MaxLog
    /\ \A r \in in_flight : r.emp_id # k
    /\ IF op = "INSERT" THEN k \notin DOMAIN employees_db1
                        ELSE k \in DOMAIN employees_db1
    /\ in_flight' = in_flight \cup
          { CdcRow(Len(emp_cdc) + Cardinality(in_flight) + 1, k,
                   IF op = "DELETE" THEN employees_db1[k] ELSE attrs, op) }
    /\ UNCHANGED <<employees_db1, emp_cdc, tailerVars, topic, consumerVars>>

SourceBegins ==
    \E k \in Keys, attrs \in SourceAttrs, op \in {"INSERT", "UPDATE", "DELETE"} :
        SourceBegin(k, attrs, op)

\* conn.commit() of a transaction: its change of employees and its row of
\* emp_cdc become visible together, whatever the order in which the
\* transactions took their cdc_ids.
SourceCommit(r) ==
    /\ in_flight' = in_flight \ {r}
    /\ emp_cdc' = Append(emp_cdc, r)
    /\ employees_db1' = IF r.action = "DELETE"
                           THEN Remove(employees_db1, r.emp_id)
                           ELSE Put(employees_db1, r.emp_id, AttrsOf(r))
    /\ UNCHANGED <<tailerVars, topic, consumerVars>>

SourceCommits == \E r \in in_flight : SourceCommit(r)

----------------------------------------------------------------------------
(* producer.py: CDCDataHandler and the polling loop *)

\* Mutant: ORDER BY cdc_id DESC.
OrderByCdcId_descending(rows) ==
    [i \in 1..Cardinality(rows) |->
        CHOOSE r \in rows :
            Cardinality({q \in rows : q.cdc_id > r.cdc_id}) = i - 1]

\* ORDER BY cdc_id ASC: the i-th row is the one with i - 1 rows below it
\* (cdc_id is the primary key of emp_cdc).
OrderByCdcId(rows) ==
    [i \in 1..Cardinality(rows) |->
        CHOOSE r \in rows :
            Cardinality({q \in rows : q.cdc_id < r.cdc_id}) = i - 1]

\* SELECT ... FROM emp_cdc WHERE cdc_id > %s ORDER BY cdc_id ASC
SelectNew(log, offset) ==
    OrderByCdcId({log[i] : i \in {j \in 1..Len(log) : log[j].cdc_id > offset}})

\* The largest of a non-empty set of numbers.
Largest(numbers) == CHOOSE n \in numbers : \A m \in numbers : m <= n

\* Mutant: last_offset is set one past the largest cdc_id seen.
AdvanceOffset_one_past(offset, records) ==
    IF records = <<>> THEN offset
    ELSE 1 + Largest({offset} \cup
                     {records[i].cdc_id : i \in 1..Len(records)})

\* Mutant: last_offset is set to the cdc_id of the first record only.
AdvanceOffset_first(offset, records) ==
    IF records = <<>> THEN offset
    ELSE Largest({offset, records[1].cdc_id})

\* The loop over the records: last_offset is raised to every larger cdc_id
\* met, so it ends at the largest of itself and the cdc_ids of the batch.
AdvanceOffset(offset, records) ==
    Largest({offset} \cup {records[i].cdc_id : i \in 1..Len(records)})

\* Mutant: the query selects cdc_id >= last_offset.
get_new_cdc_records_inclusive(log, offset, raises) ==
    IF raises
    THEN [records |-> <<>>, last_offset |-> offset]
    ELSE LET rows == SelectNew(log, offset - 1)
             records == [i \in 1..Len(rows) |-> record_of_row(rows[i])]
         IN  [records |-> records,
              last_offset |-> AdvanceOffset(offset, records)]

\* Mutant: the query raises after last_offset has followed the rows.
get_new_cdc_records_fails_late(log, offset, raises) ==
    LET rows == SelectNew(log, offset)
        records == [i \in 1..Len(rows) |-> record_of_row(rows[i])]
    IN  [records |-> IF raises THEN <<>> ELSE records,
         last_offset |-> AdvanceOffset(offset, records)]

\* get_new_cdc_records: the records to publish and the new last_offset; a
\* connection, execute or fetch that raises leaves both as they were.
get_new_cdc_records(log, offset, raises) ==
    IF raises
    THEN [records |-> <<>>, last_offset |-> offset]
    ELSE LET rows == SelectNew(log, offset)
             records == [i \in 1..Len(rows) |-> record_of_row(rows[i])]
         IN  [records |-> records,
              last_offset |-> AdvanceOffset(offset, records)]

\* One call of get_new_cdc_records at the top of the loop; an empty result
\* sleeps and scans again.
Scan(raises) ==
    LET got == get_new_cdc_records(emp_cdc, last_offset, raises) IN
    /\ tailer_pc = "scan"
    /\ new_records' = got.records
    /\ last_offset' = got.last_offset
    /\ tailer_pc' = IF got.records = <<>> THEN "scan" ELSE "produce"
    /\ UNCHANGED <<sourceVars, published, lost, tailer_restarts, topic,
                   consumerVars>>

TailerScan == Scan(FALSE) /\ UNCHANGED <<scans, tailer_open>>

TailerScanFails == Scan(TRUE) /\ UNCHANGED <<scans, tailer_open>>

\* producer.produce of the next record of the batch, keyed by its emp_id;
\* after the last one the loop flushes, sleeps and scans again.
TailerProduce ==
    /\ tailer_pc = "produce"
    /\ LET record == Head(new_records) IN
         /\ topic' = [topic EXCEPT ![record.emp_id] =
                          Append(@, message_of(record))]
         /\ published' = Append(published, record.cdc_id)
    /\ new_records' = Tail(new_records)
    /\ tailer_pc' = IF Tail(new_records) = <<>> THEN "scan" ELSE "produce"
    /\ UNCHANGED <<sourceVars, last_offset, scans, lost, tailer_open,
                   tailer_restarts, consumerVars>>

\* The history of the scans, kept where single scans are examined: the
\* watermark and the length of the log at the call, whether the query
\* raised, the cdc_ids returned and the watermark at the return.
RecordScan(raises) ==
    scans' = Remember(scans,
                [from |-> last_offset, log_len |-> Len(emp_cdc),
                 raised |-> raises,
                 returned |-> [i \in 1..Len(new_records') |->
                                  new_records'[i].cdc_id],
                 upto |-> last_offset'])

TailerQueries == Scan(FALSE) /\ RecordScan(FALSE) /\ UNCHANGED tailer_open

TailerQueryFails == Scan(TRUE) /\ RecordScan(TRUE) /\ UNCHANGED tailer_open

\* Points at which one call of get_new_cdc_records can raise.
ScanFailPoints == {"none", "connect", "cursor", "execute", "fetch"}

\* The connections one call of get_new_cdc_records can leave open (as for
\* process_message: cur.close() and conn.close() are the last statements
\* of the try block).
scan_connections(fail) ==
    IF fail \in {"none", "connect"} THEN {0} ELSE {0, 1}

\* One call of get_new_cdc_records with its connection.
TailerUnit(fail) ==
    /\ Scan(fail # "none")
    /\ \E left \in scan_connections(fail) :
          /\ tailer_open + left <= MaxOpen
          /\ tailer_open' = tailer_open + left
    /\ UNCHANGED scans

TailerScans == \E fail \in ScanFailPoints : TailerUnit(fail)

\* Mutant: a failed delivery sets last_offset back before the record and
\* drops the rest of the batch, so the next scan reads the record again.
TailerDeliveryFails_rolls_back ==
    /\ tailer_pc = "produce"
    /\ published' = Append(published, Head(new_records).cdc_id)
    /\ lost' = lost \cup {Head(new_records).cdc_id}
    /\ last_offset' = Head(new_records).cdc_id - 1
    /\ new_records' = <<>>
    /\ tailer_pc' = "scan"
    /\ UNCHANGED <<sourceVars, scans, tailer_open, tailer_restarts, topic,
                   consumerVars>>

\* producer.produce accepts the record and the delivery report carries an
\* error: delivery_report prints it, the message is not in the topic.
TailerDeliveryFails ==
    /\ tailer_pc = "produce"
    /\ published' = Append(published, Head(new_records).cdc_id)
    /\ lost' = lost \cup {Head(new_records).cdc_id}
    /\ new_records' = Tail(new_records)
    /\ tailer_pc' = IF Tail(new_records) = <<>> THEN "scan" ELSE "produce"
    /\ UNCHANGED <<sourceVars, last_offset, scans, tailer_open,
                   tailer_restarts, topic, consumerVars>>

NextTailer ==
    \/ SourceStatement
    \/ TailerQueries
    \/ TailerQueryFails
    \/ TailerProduce
    \/ TailerDeliveryFails

\* producer.produce, producer.poll or producer.flush raises (a full local
\* queue, a callback that raises): the loop has no handler for it but
\* `finally`, and the process ends.
TailerProduceRaises ==
    /\ tailer_pc = "produce"
    /\ tailer_pc' = "raised"
    /\ UNCHANGED <<sourceVars, last_offset, new_records, published, scans,
                   lost, tailer_open, tailer_restarts, topic, consumerVars>>

\* KeyboardInterrupt, raised wherever the loop stands: the handler prints
\* and `finally` flushes what was handed to produce.
TailerInterrupt ==
    /\ tailer_pc \in {"scan", "produce"}
    /\ tailer_pc' = "stopped"
    /\ UNCHANGED <<sourceVars, last_offset, new_records, published, scans,
                   lost, tailer_open, tailer_restarts, topic, consumerVars>>

\* Mutant: the process started again resumes from the watermark the ended
\* one had reached.
TailerRestart_keeps_offset ==
    /\ tailer_restarts < MaxRestarts
    /\ tailer_restarts' = tailer_restarts + 1
    /\ last_offset' = last_offset
    /\ new_records' = <<>>
    /\ tailer_pc' = "scan"
    /\ tailer_open' = 0
    /\ UNCHANGED <<sourceVars, published, scans, lost, topic, consumerVars>>

\* The producer process ends, wherever its loop stands, and is started
\* again: `finally` flushes what was handed to produce, the records of the
\* batch not yet produced are gone with the process, and the new
\* CDCDataHandler starts with last_offset = 0.
TailerRestart ==
    /\ tailer_restarts < MaxRestarts
    /\ tailer_restarts' = tailer_restarts + 1
    /\ last_offset' = 0
    /\ new_records' = <<>>
    /\ tailer_pc' = "scan"
    /\ tailer_open' = 0
    /\ UNCHANGED <<sourceVars, published, scans, lost, topic, consumerVars>>

----------------------------------------------------------------------------
(* consumer.py: the consumer loop on the topic *)

\* poll() returns the next message of a partition and processing_func
\* applies it.
ConsumerPoll(k, fail) ==
    /\ consumer_pc = "poll"
    /\ position[k] < Len(topic[k])
    /\ Process(topic[k][position[k] + 1].value, fail)
    /\ position' = [position EXCEPT ![k] = @ + 1]
    /\ UNCHANGED <<sourceVars, tailerVars, topic, committed, incoming,
                   consumer_pc, in_hand, printed, before, handled>>

ConsumerApplies ==
    \E k \in Keys : ConsumerPoll(k, "none") /\ UNCHANGED consumer_open

ConsumerApplyFails ==
    \E k \in Keys :
        /\ position[k] < Len(topic[k])
        /\ \E fail \in FailPointsOf(employees_db2,
                                    topic[k][position[k] + 1].value)
                       \ {"none"} :
              ConsumerPoll(k, fail) /\ UNCHANGED consumer_open

\* One call of process_message from the loop, with its connection.
ConsumerUnit(k, fail) ==
    /\ ConsumerPoll(k, fail)
    /\ \E left \in apply_connections(topic[k][position[k] + 1].value, fail) :
          /\ consumer_open + left <= MaxOpen
          /\ consumer_open' = consumer_open + left

ConsumerWorks ==
    \E k \in Keys :
        /\ position[k] < Len(topic[k])
        /\ \E fail \in FailPointsOf(employees_db2,
                                    topic[k][position[k] + 1].value) :
              ConsumerUnit(k, fail)

\* poll() returns a message that carries an error: it is printed and the
\* loop polls again.
ConsumerPollError ==
    /\ consumer_pc = "poll"
    /\ UNCHANGED vars

\* poll() raises: consume_cdc catches the exception outside the loop,
\* prints it and closes the consumer.
ConsumerPollRaises ==
    /\ consumer_pc = "poll"
    /\ consumer_pc' = "raised"
    /\ UNCHANGED <<sourceVars, tailerVars, topic, position, committed,
                   employees_db2, incoming, in_hand, consumer_open, printed,
                   before, handled, apply_errors>>

\* enable.auto.commit: the offsets of the messages polled so far are
\* committed for the group.
AutoCommit ==
    /\ consumer_pc = "poll"
    /\ committed # position
    /\ committed' = position
    /\ UNCHANGED <<sourceVars, tailerVars, topic, position, employees_db2,
                   incoming, consumer_pc, in_hand, consumer_open, printed,
                   before, handled, apply_errors>>

\* The consumer process is started again: it resumes from the offsets
\* committed for its group, and polls anew what was delivered after them.
ConsumerRestart ==
    /\ committed # position
    /\ position' = committed
    /\ consumer_pc' = "poll"
    /\ UNCHANGED <<sourceVars, tailerVars, topic, committed, employees_db2,
                   incoming, in_hand, consumer_open, printed, before, handled,
                   apply_errors>>

\* poll() returns the next message of a partition: the consumer's position
\* moves past it (and the offset is stored for the next commit) before
\* processing_func is called.
ConsumerFetch(k) ==
    /\ consumer_pc = "poll"
    /\ position[k] < Len(topic[k])
    /\ in_hand' = <<topic[k][position[k] + 1]>>
    /\ position' = [position EXCEPT ![k] = @ + 1]
    /\ consumer_pc' = "process"
    /\ UNCHANGED <<sourceVars, tailerVars, topic, committed, employees_db2,
                   incoming, consumer_open, printed, before, handled,
                   apply_errors>>

ConsumerFetches == \E k \in Keys : ConsumerFetch(k)

\* processing_func(msg) on the message in hand.
ConsumerProcess(fail) ==
    /\ consumer_pc = "process"
    /\ Process(in_hand[1].value, fail)
    /\ in_hand' = <<>>
    /\ consumer_pc' = "poll"
    /\ UNCHANGED <<sourceVars, tailerVars, topic, position, committed,
                   incoming, consumer_open, printed, before, handled>>

ConsumerProcesses ==
    /\ consumer_pc = "process"
    /\ \E fail \in FailPointsOf(employees_db2, in_hand[1].value) :
          ConsumerProcess(fail)

\* enable.auto.commit while processing_func runs: the commit (by the
\* client's timer, or by close() after a KeyboardInterrupt in
\* processing_func) covers the message in hand.
AutoCommitInProcess ==
    /\ consumer_pc = "process"
    /\ committed # position
    /\ committed' = position
    /\ UNCHANGED <<sourceVars, tailerVars, topic, position, employees_db2,
                   incoming, consumer_pc, in_hand, consumer_open, printed,
                   before, handled, apply_errors>>

\* Mutant: the restarted consumer reads every partition from its start.
ConsumerRestartInProcess_from_earliest ==
    /\ consumer_pc = "process"
    /\ position' = [k \in Keys |-> 0]
    /\ in_hand' = <<>>
    /\ consumer_pc' = "poll"
    /\ UNCHANGED <<sourceVars, tailerVars, topic, committed, employees_db2,
                   incoming, consumer_open, printed, before, handled,
                   apply_errors>>

\* The consumer process ends while processing_func runs and is started
\* again: the message in hand is gone with the process, and the consumer
\* resumes from the committed offsets.
ConsumerRestartInProcess ==
    /\ consumer_pc = "process"
    /\ position' = committed
    /\ in_hand' = <<>>
    /\ consumer_pc' = "poll"
    /\ UNCHANGED <<sourceVars, tailerVars, topic, committed, employees_db2,
                   incoming, consumer_open, printed, before, handled,
                   apply_errors>>

----------------------------------------------------------------------------
(* The pipeline *)

Init ==
    /\ InitCommon
    /\ incoming = <<>>
    /\ employees_db2 = EmptyTable
    /\ before = EmptyTable

Next ==
    \/ SourceStatement
    \/ TailerScan
    \/ TailerScanFails
    \/ TailerProduce
    \/ ConsumerApplies
    \/ ConsumerApplyFails
    \/ AutoCommit
    \/ ConsumerRestart

Spec == Init /\ [][Next]_vars

SpecTailer == Init /\ [][NextTailer]_vars

\* The pipeline with the consumer's poll and processing_func as two steps,
\* commits at any time and restarts.
NextCommit ==
    \/ SourceStatement
    \/ TailerScan
    \/ TailerProduce
    \/ ConsumerFetches
    \/ ConsumerProcesses
    \/ AutoCommit
    \/ AutoCommitInProcess
    \/ ConsumerRestart
    \/ ConsumerRestartInProcess

SpecCommit == Init /\ [][NextCommit]_vars

\* The pipeline with every failure of the two loops.
NextFaults ==
    \/ SourceStatement
    \/ TailerScans
    \/ TailerProduce
    \/ TailerDeliveryFails
    \/ TailerProduceRaises
    \/ TailerInterrupt
    \/ ConsumerWorks
    \/ ConsumerPollError
    \/ ConsumerPollRaises

SpecFaults == Init /\ [][NextFaults]_vars

\* The pipeline with no failure and no restart, every loop running on.
FairNext ==
    \/ SourceStatement
    \/ TailerScan
    \/ TailerProduce
    \/ ConsumerApplies
    \/ AutoCommit

FairSpec ==
    /\ Init
    /\ [][FairNext]_vars
    /\ WF_vars(TailerScan)
    /\ WF_vars(TailerProduce)
    /\ WF_vars(ConsumerApplies)

\* The pipeline with no failures, where the producer process is started
\* again.
NextReplay ==
    \/ SourceStatement
    \/ TailerScan
    \/ TailerProduce
    \/ TailerRestart
    \/ ConsumerApplies

SpecReplay == Init /\ [][NextReplay]_vars

\* The source with concurrent transactions, and the tailer loop.
NextVisibility ==
    \/ SourceBegins
    \/ SourceCommits
    \/ TailerScan
    \/ TailerProduce

SpecVisibility == Init /\ [][NextVisibility]_vars

\* The pipeline with no failures, where source UPDATEs can change emp_id.
NextRekey ==
    \/ SourceStatement
    \/ SourceRekeys
    \/ TailerScan
    \/ TailerProduce
    \/ ConsumerApplies

SpecRekey == Init /\ [][NextRekey]_vars

----------------------------------------------------------------------------
(* Properties of the apply engine, checked under SpecApply *)

\* The value the producer publishes for a change-log row.
EventOf(id, k, attrs, action) ==
    to_json(record_of_row(CdcRow(id, k, attrs, action)))

\* The last call of process_message, and the one before it.
Called == Len(handled) > 0
LastCall == handled[Len(handled)]
CalledTwice == Len(handled) = 2

\* The i-th remembered call handled this value and the database raised
\* nowhere.
Applied(i, value) ==
    /\ Len(handled) >= i
    /\ handled[i].value = value
    /\ handled[i].fail = "none"

\* The last call handled an event of this action for key k with these
\* attributes, and the database raised nowhere.
LastApplied(k, attrs, action) ==
    /\ Called
    /\ LastCall.fail = "none"
    /\ \E id \in EventIds : LastCall.value = EventOf(id, k, attrs, action)

\* The last call handled an event of this action for key k.
LastHandled(k, action) ==
    /\ Called
    /\ \E id \in EventIds, attrs \in EventAttrs :
          LastCall.value = EventOf(id, k, attrs, action)

\* The destination table is `before` with key k holding exactly attrs.
HoldsSnapshot(k, attrs) ==
    /\ DOMAIN employees_db2 = (DOMAIN before) \cup {k}
    /\ employees_db2[k] = attrs
    /\ \A j \in (DOMAIN before) \ {k} : employees_db2[j] = before[j]

\* C2: Create(key=1, salary=1000) then Update(key=1, salary=2000) in the
\* log; when the Update is applied before the Create (through the insert
\* fallback), key 1 ends with salary 2000.
C2_OutOfOrderTolerance ==
    \A a1, a2 \in EventAttrs :
        ( /\ CalledTwice
          /\ a1.salary = 1000 /\ a2.salary = 2000
          /\ Applied(1, EventOf(2, 1, a2, "UPDATE"))
          /\ handled[1].printed =
                <<"INSERT applied", "UPDATE not found, inserted instead">>
          /\ Applied(2, EventOf(1, 1, a1, "INSERT")) )
        => /\ 1 \in DOMAIN employees_db2
           /\ employees_db2[1].salary = 2000

\* C3: applying an event twice in a row leaves the destination table as
\* applying it once leaves it.
C3_Idempotence ==
    ( /\ CalledTwice
      /\ handled[1].value = handled[2].value
      /\ handled[1].fail = "none" /\ handled[2].fail = "none" )
    => employees_db2 = before

C3_Witness ==
    /\ CalledTwice
    /\ Applied(1, EventOf(1, 1, NoDob1000, "INSERT"))
    /\ handled[2] = handled[1]
    /\ 1 \in DOMAIN before
    /\ before[1] = NoDob1000
    /\ employees_db2 = before

\* C7: a DELETE for a key with no record completes without error and
\* leaves the whole destination table unchanged.
C7_DeleteAbsentNoOp ==
    \A k \in Keys :
        (LastHandled(k, "DELETE") /\ k \notin DOMAIN before)
        => /\ employees_db2 = before
           /\ LastCall.fail = "none" => printed = <<"DELETE not found">>

C7_Witness ==
    /\ LastHandled(2, "DELETE")
    /\ LastCall.fail = "none"
    /\ 2 \notin DOMAIN before
    /\ 1 \in DOMAIN before
    /\ employees_db2 = before
    /\ printed = <<"DELETE not found">>

\* C8: an UPDATE for key k sets every attribute of k's record to the
\* event's snapshot when the record exists, and inserts a record holding
\* the snapshot when it is absent.
C8_UpdateWithInsertFallback ==
    \A k \in Keys, attrs \in EventAttrs :
        LastApplied(k, attrs, "UPDATE")
        => /\ HoldsSnapshot(k, attrs)
           /\ printed = IF k \in DOMAIN before
                        THEN <<"UPDATE applied">>
                        ELSE <<"INSERT applied",
                               "UPDATE not found, inserted instead">>

C8_Witness ==
    /\ CalledTwice
    /\ Applied(1, EventOf(1, 1, Dob2000, "UPDATE"))
    /\ Applied(2, EventOf(2, 2, NoDob1000, "UPDATE"))
    /\ before = [k \in {1} |-> Dob2000]
    /\ employees_db2 = [k \in {1, 2} |-> IF k = 1 THEN Dob2000 ELSE NoDob1000]
    /\ printed = <<"INSERT applied", "UPDATE not found, inserted instead">>

\* C9: an INSERT for key k inserts a record holding the event's snapshot
\* when k is absent and overwrites every attribute when k is present; a key
\* conflict raises no error.
C9_CreateIsUpsert ==
    \A k \in Keys, attrs \in EventAttrs :
        LastApplied(k, attrs, "INSERT")
        => /\ HoldsSnapshot(k, attrs)
           /\ printed = <<"INSERT applied">>

C9_Witness ==
    /\ LastApplied(1, NoDob1000, "INSERT")
    /\ 1 \in DOMAIN before
    /\ before[1] = Dob2000
    /\ employees_db2[1] = NoDob1000
    /\ printed = <<"INSERT applied">>

\* An event that parses and whose action is none of INSERT, UPDATE, DELETE.
UnknownAction(value) ==
    /\ ~ from_json_raises(value)
    /\ from_json(value).action \notin {"INSERT", "UPDATE", "DELETE"}

\* C10: an event whose action is none of INSERT, UPDATE, DELETE is logged
\* and skipped: the destination table is unchanged, and the loop is still
\* polling after the call.
C10_UnknownActionSkipped ==
    /\ [] ( (Called /\ UnknownAction(LastCall.value))
            => /\ employees_db2 = before
               /\ LastCall.fail = "none" => printed = <<"Unknown action">> )
    /\ [][ (handled' # handled /\ UnknownAction(Head(incoming)))
           => consumer_pc' = "poll" ]_vars

C10_Witness ==
    /\ CalledTwice
    /\ Applied(1, EventOf(1, 1, NoDob1000, "TRUNCATE"))
    /\ Applied(2, EventOf(2, 2, Dob2000, "INSERT"))
    /\ 1 \notin DOMAIN employees_db2
    /\ employees_db2[2] = Dob2000
    /\ consumer_pc = "poll"

\* The payloads that are no JSON text or no members of a CDCRecord.
Malformed == {InvalidJson, UnexpectedMember}

\* C11: a payload that from_json rejects is logged and skipped: the call
\* does not raise (the loop is still polling), the destination table is
\* unchanged, the message is consumed and never comes back, and the next
\* message is processed.
C11_MalformedSkipped ==
    /\ [] ( (Called /\ LastCall.value \in Malformed)
            => /\ employees_db2 = before
               /\ printed = <<"Error processing message">> )
    /\ [][ (handled' # handled /\ Head(incoming) \in Malformed)
           => /\ consumer_pc' = "poll"
              /\ incoming' = Tail(incoming) ]_vars
    /\ [][ Len(incoming') <= Len(incoming) ]_vars

C11_Witness ==
    /\ CalledTwice
    /\ Applied(1, UnexpectedMember)
    /\ handled[1].printed = <<"Error processing message">>
    /\ Applied(2, EventOf(2, 2, Dob2000, "INSERT"))
    /\ employees_db2 = [k \in {2} |-> Dob2000]
    /\ incoming = <<>>
    /\ consumer_pc = "poll"

\* C17: a database error while an event is applied is caught and logged:
\* the destination table is as it was before the event, the loop is still
\* polling, the event is consumed and never comes back, and the next
\* message is processed.
C17_ApplyErrorSkipsEvent ==
    /\ [] ( (Called /\ LastCall.fail # "none")
            => /\ employees_db2 = before
               /\ HasError(printed) )
    /\ [][ (handled' # handled /\ handled'[Len(handled')].fail # "none")
           => /\ consumer_pc' = "poll"
              /\ incoming' = Tail(incoming)
              /\ apply_errors' ]_vars
    /\ [][ incoming' # incoming => incoming' = Tail(incoming) ]_vars

C17_Witness ==
    /\ CalledTwice
    /\ handled[1] = [value |-> EventOf(1, 1, NoDob1000, "INSERT"),
                     fail |-> "execute", printed |-> <<"Error on INSERT">>]
    /\ Applied(2, EventOf(2, 2, Dob2000, "UPDATE"))
    /\ employees_db2 = [k \in {2} |-> Dob2000]
    /\ incoming = <<>>
    /\ consumer_pc = "poll"

\* C20: of two events for the same key applied newest first, the older
\* one decides the record: its attributes when it is an INSERT or UPDATE
\* (also after the newer one deleted the record), no record when it is a
\* DELETE.
C20_NoSequenceComparison ==
    CalledTwice =>
      \A k \in Keys, older \in EventAttrs, act1 \in EventActions :
        ( /\ Applied(2, EventOf(1, k, older, act1))
          /\ \E newer \in EventAttrs, act2 \in EventActions :
                Applied(1, EventOf(2, k, newer, act2)) )
        => IF act1 = "DELETE"
           THEN k \notin DOMAIN employees_db2
           ELSE /\ k \in DOMAIN employees_db2
                /\ employees_db2[k] = older

C20_Witness ==
    /\ CalledTwice
    /\ Applied(1, EventOf(2, 1, Dob2000, "DELETE"))
    /\ handled[1].printed = <<"DELETE applied">>
    /\ Applied(2, EventOf(1, 1, NoDob1000, "INSERT"))
    /\ 1 \notin DOMAIN before
    /\ employees_db2[1] = NoDob1000

\* The emp_id a message value names, if it names one.
KeyOf(value) ==
    IF value.kind = "object" /\ "emp_id" \in DOMAIN value.members
    THEN {value.members.emp_id}
    ELSE {}

\* C24: applying a message for emp_id k, whatever its action and whether
\* the call succeeds or hits an error, leaves the destination's rows of
\* every other emp_id as they were (present or absent, and their values),
\* and a step of the apply engine leaves the tailer's watermark and batch
\* untouched.
C24_OtherKeysUntouched ==
    /\ [] (Called
           => \A j \in Keys \ KeyOf(LastCall.value) :
                 /\ (j \in DOMAIN employees_db2) = (j \in DOMAIN before)
                 /\ j \in DOMAIN before => employees_db2[j] = before[j])
    /\ [][ handled' # handled
           => UNCHANGED <<last_offset, new_records, tailer_pc>> ]_vars

C24_Witness ==
    /\ Called
    /\ LastCall.value = EventOf(1, 1, Dob2000, "DELETE")
    /\ LastCall.fail = "none"
    /\ before = [k \in {1, 2} |-> NoDob1000]
    /\ employees_db2 = [k \in {2} |-> NoDob1000]

\* C25: for every change-log row of an INSERT or UPDATE whose message
\* reaches the engine, the record the tailer built from it has the eight
\* fields of CDCRecord and comes back from from_json(to_json(...)) with
\* all eight equal; a NULL dob is the empty string on the wire; and when
\* the engine applies the message without error, the destination's row of the event's emp_id holds the
\* source row's first_name, last_name, dob, city and salary, a NULL dob
\* being written as NULL.
C25_AttributesSurviveWire ==
    \A id \in EventIds, k \in Keys, attrs \in EventAttrs,
       action \in {"INSERT", "UPDATE"} :
        LET row == CdcRow(id, k, attrs, action)
            r == record_of_row(row)
            wire == to_json(r)
        IN  (Called /\ LastCall.value = wire)
              => /\ DOMAIN r = CDCRecordFields
                 /\ ~ from_json_raises(wire)
                 /\ from_json(wire) = r
                 /\ row.dob.null => wire.members.dob = ""
                 /\ LastCall.fail = "none"
                       => /\ k \in DOMAIN employees_db2
                          /\ employees_db2[k] = AttrsOf(row)
                          /\ row.dob.null
                                => employees_db2[k].dob = NullDate

C25_Witness ==
    /\ Called
    /\ LastCall.fail = "none"
    /\ LastCall.value = to_json(record_of_row(CdcRow(2, 2, NoDob1000, "INSERT")))
    /\ LastCall.value.members.dob = ""
    /\ before = [k \in {2} |-> Dob2000]
    /\ employees_db2 = [k \in {2} |-> NoDob1000]
    /\ employees_db2[2].dob = NullDate

----------------------------------------------------------------------------
(* Properties of the pipeline, checked under Spec *)

\* The rows of the change log for key k, in log order.
KeyLog(k) == SelectSeq(emp_cdc, LAMBDA row : row.emp_id = k)

\* Every event of the log has been delivered, each key's in log order: the
\* consumer stands after the last event of every key.
AllDelivered == \A k \in Keys : position[k] = Len(KeyLog(k))

C4_WatermarkMonotonic ==
    /\ [][last_offset' >= last_offset]_vars
    /\ [][ (tailer_pc = "scan")
           => \A i \in 1..Len(new_records') :
                 new_records'[i].cdc_id > last_offset ]_vars
    /\ [] (\A i, j \in 1..Len(published) :
              i < j => published[i] < published[j])

C4_Witness ==
    /\ published = <<1, 2, 3>>
    /\ last_offset = 3
    /\ new_records = <<>>
    /\ tailer_pc = "scan"

----------------------------------------------------------------------------
(* Properties of the tailer, checked under SpecTailer *)

\* The cdc_ids get_new_cdc_records has returned so far: those published and
\* those of the current batch.
Returned ==
    {published[i] : i \in 1..Len(published)}
    \cup {new_records[i].cdc_id : i \in 1..Len(new_records)}

\* The cdc_ids a scan returned.
ReturnedBy(scan) == {scan.returned[i] : i \in 1..Len(scan.returned)}

\* C5: a scan whose query raises returns no records and leaves last_offset
\* as it was, so the next scan queries from the same watermark; a
\* successful scan after it returns every row the failed one would have
\* returned, and no row at or below last_offset was never returned.
C5_ScanFailureSkipsNothing ==
    /\ \A n \in 1..Len(scans) :
          scans[n].raised => /\ scans[n].returned = <<>>
                             /\ scans[n].upto = scans[n].from
    /\ (scans # <<>> /\ scans[Len(scans)].raised)
          => /\ last_offset = scans[Len(scans)].from
             /\ new_records = <<>>
             /\ tailer_pc = "scan"
    /\ (Len(scans) = 2 /\ scans[1].raised /\ ~ scans[2].raised)
          => /\ scans[2].from = scans[1].from
             /\ \A i \in 1..scans[1].log_len :
                   emp_cdc[i].cdc_id > scans[1].from
                   => emp_cdc[i].cdc_id \in ReturnedBy(scans[2])
    /\ \A i \in 1..Len(emp_cdc) :
          emp_cdc[i].cdc_id <= last_offset => emp_cdc[i].cdc_id \in Returned

C5_Witness ==
    /\ Len(emp_cdc) = 3
    /\ scans = << [from |-> 1, log_len |-> 2, raised |-> TRUE,
                   returned |-> <<>>, upto |-> 1],
                  [from |-> 1, log_len |-> 3, raised |-> FALSE,
                   returned |-> <<2, 3>>, upto |-> 3] >>
    /\ published = <<1>>
    /\ last_offset = 3

\* The cdc_ids of the messages in the topic.
TopicIds ==
    UNION {{topic[k][i].value.members.cdc_id : i \in 1..Len(topic[k])} :
              k \in Keys}

\* The last n cdc_ids handed to produce.
LastPublished(n) ==
    SubSeq(published, Len(published) - n + 1, Len(published))

\* C14: a successful scan returns exactly the rows of the log with cdc_id
\* above last_offset at the call, in strictly ascending order of cdc_id;
\* the loop hands them to produce in that order, and every message of the
\* topic is keyed by its emp_id.
C14_ScanReturnsNewRowsInOrder ==
    /\ \A n \in 1..Len(scans) :
          ~ scans[n].raised
          => /\ ReturnedBy(scans[n]) =
                   {emp_cdc[i].cdc_id : i \in 1..scans[n].log_len}
                   \ (0..scans[n].from)
             /\ \A i, j \in 1..Len(scans[n].returned) :
                   i < j => scans[n].returned[i] < scans[n].returned[j]
    /\ (scans # <<>> /\ scans[Len(scans)].returned # <<>>)
          => LET batch == scans[Len(scans)].returned
                 done == Len(batch) - Len(new_records)
             IN  /\ done >= 0
                 /\ done <= Len(published)
                 /\ LastPublished(done)
                       \o [i \in 1..Len(new_records) |-> new_records[i].cdc_id]
                    = batch
    /\ \A k \in Keys : \A i \in 1..Len(topic[k]) :
          /\ topic[k][i].key = ToString(k)
          /\ topic[k][i].value.members.emp_id = k

C14_Witness ==
    /\ scans # <<>>
    /\ scans[Len(scans)] = [from |-> 1, log_len |-> 3, raised |-> FALSE,
                            returned |-> <<2, 3>>, upto |-> 3]
    /\ published = <<1, 2, 3>>
    /\ TopicIds = {1, 2, 3}
    /\ Len(topic[1]) = 2
    /\ Len(topic[2]) = 1

C16_ReadThenPublishGap ==
    /\ [] (\A i \in 1..Len(new_records) :
              new_records[i].cdc_id <= last_offset)
    /\ [][ lost' # lost => last_offset' = last_offset ]_vars
    /\ [] (\A id \in lost :
              /\ id <= last_offset
              /\ id \notin TopicIds
              /\ Cardinality({i \in 1..Len(published) :
                                published[i] = id}) = 1)

C16_Witness ==
    /\ Len(emp_cdc) = 3
    /\ lost = {2}
    /\ TopicIds = {1, 3}
    /\ published = <<1, 2, 3>>
    /\ last_offset = 3
    /\ new_records = <<>>
    /\ tailer_pc = "scan"
    /\ scans # <<>>
    /\ get_new_cdc_records(emp_cdc, last_offset, FALSE).records = <<>>

----------------------------------------------------------------------------
(* Properties of the loops under failures, checked under SpecFaults *)

\* C12: no error ends a loop: neither the tailer loop nor the consumer
\* loop is ever left because of an exception.
C12_NoErrorIsFatal ==
    /\ tailer_pc # "raised"
    /\ consumer_pc # "raised"

\* C13: after every scan and every event application no connection the
\* call opened is still open.
C13_ConnectionsReleased ==
    /\ tailer_open = 0
    /\ consumer_open = 0

\* C19: when the tailer loop has been left on a cancellation, no record of
\* a batch that was read is left unpublished.
C19_CancelBetweenCycles ==
    tailer_pc = "stopped" => new_records = <<>>

----------------------------------------------------------------------------
(* Properties of the commits, checked under SpecCommit *)

\* C18: a commit takes the polled position whatever became of the
\* application (it changes neither the destination table nor the error
\* history), committed offsets never go back, and the consumer never
\* stands below a committed offset, so after a restart no event at or
\* below it is delivered again.
C18_CommitDecoupledFromApply ==
    /\ [][ committed' # committed
           => /\ committed' = position
              /\ employees_db2' = employees_db2
              /\ apply_errors' = apply_errors ]_vars
    /\ [][ \A k \in Keys : committed'[k] >= committed[k] ]_vars
    /\ [] (\A k \in Keys : committed[k] <= position[k])

C18_Witness ==
    /\ emp_cdc = << CdcRow(1, 1, JohnDoe75, "INSERT") >>
    /\ TopicIds = {1}
    /\ committed[1] = 1
    /\ position[1] = 1
    /\ consumer_pc = "poll"
    /\ in_hand = <<>>
    /\ ~ apply_errors
    /\ employees_db1 = [k \in {1} |-> JohnDoe75]
    /\ employees_db2 = EmptyTable

----------------------------------------------------------------------------
(* Eventual replication, checked under FairSpec *)

\* The position of row i of the log among the rows of its key.
Rank(i) ==
    Cardinality({j \in 1..i : emp_cdc[j].emp_id = emp_cdc[i].emp_id})

\* The consumer has just applied row i of the log, and the destination
\* table shows it: the row's attributes, or no record after a DELETE.
Reflected(i) ==
    /\ Len(emp_cdc) >= i
    /\ LET row == emp_cdc[i] IN
         /\ position[row.emp_id] = Rank(i)
         /\ IF row.action = "DELETE"
            THEN row.emp_id \notin DOMAIN employees_db2
            ELSE /\ row.emp_id \in DOMAIN employees_db2
                 /\ employees_db2[row.emp_id] = AttrsOf(row)

\* Row i of the log is committed and the consumer has not reached it.
Awaited(i) ==
    /\ Len(emp_cdc) >= i
    /\ position[emp_cdc[i].emp_id] < Rank(i)

\* C6: with both loops running and no failure, every committed source
\* statement is eventually reflected in the destination table, and the
\* destination table ends equal to the source table.

----------------------------------------------------------------------------
(* Claims on the producer started again (SpecReplay) *)

\* The producer has been started again, its scans have reached the end of
\* the change log, every record it read is in the topic, and the consumer
\* has applied every message of every partition, in partition order,
\* without error.
ReplayApplied ==
    /\ tailer_restarts > 0
    /\ last_offset = Len(emp_cdc)
    /\ new_records = <<>>
    /\ \A k \in Keys : position[k] = Len(topic[k])
    /\ ~ apply_errors

\* C21: a producer started again starts with last_offset = 0, its first
\* scan returns every row of the change log from the first one, and once
\* the consumer has applied the whole replay, each key's messages in
\* partition order, the destination table equals the source table again.
C21_RestartReplayConverges ==
    /\ [][ tailer_restarts' # tailer_restarts
           => (last_offset' = 0 /\ new_records' = <<>>) ]_vars
    /\ [][ (tailer_pc = "scan" /\ last_offset = 0
            /\ new_records' # new_records)
           => [i \in 1..Len(new_records') |-> new_records'[i].cdc_id]
                = [i \in 1..Len(emp_cdc) |-> i] ]_vars
    /\ [] (ReplayApplied => employees_db2 = employees_db1)

C21_Witness ==
    /\ emp_cdc = << CdcRow(1, 1, JohnDoe75, "INSERT"),
                    CdcRow(2, 1, JohnDoe85, "UPDATE"),
                    CdcRow(3, 1, JohnDoe85, "DELETE") >>
    /\ published = <<1, 2, 1, 2, 3>>
    /\ Len(topic[1]) = 5
    /\ ReplayApplied
    /\ employees_db2 = EmptyTable
    /\ employees_db1 = EmptyTable

----------------------------------------------------------------------------
(* Claims on concurrent source transactions (SpecVisibility) *)

\* C22: with source transactions that commit in an order different from
\* the order of their cdc_ids, every visible row of emp_cdc is returned by
\* exactly one scan of a continuously running tailer: no visible row lies
\* at or below last_offset without having been returned (no later scan
\* returns such a row), and no cdc_id is returned twice.
C22_EveryRowReturnedOnce ==
    /\ \A i \in 1..Len(emp_cdc) :
          emp_cdc[i].cdc_id <= last_offset => emp_cdc[i].cdc_id \in Returned
    /\ \A i, j \in 1..Len(published) :
          i # j => published[i] # published[j]
    /\ \A i \in 1..Len(new_records) :
          new_records[i].cdc_id \notin
              {published[j] : j \in 1..Len(published)}

----------------------------------------------------------------------------
(* Claims on source UPDATEs that change emp_id (SpecRekey) *)

\* The last row of the change log is the UPDATE of a row whose emp_id the
\* log last saw deleted, or never saw: the event of an UPDATE that moved a
\* row to this emp_id.
RekeyedLast ==
    /\ emp_cdc # <<>>
    /\ LET last == emp_cdc[Len(emp_cdc)]
           log == KeyLog(last.emp_id)
       IN  /\ last.action = "UPDATE"
           /\ Len(log) > 1 => log[Len(log) - 1].action = "DELETE"

\* C23: after a source UPDATE that changes a row's emp_id from a to b, once
\* the pipeline has applied every event without error, the destination
\* holds the source's row under b and holds no row under an emp_id the
\* source does not hold (none under a).
C23_RekeyMovesReplicaRow ==
    (RekeyedLast /\ AllDelivered /\ ~ apply_errors)
        => LET b == emp_cdc[Len(emp_cdc)].emp_id IN
             /\ b \in DOMAIN employees_db2
             /\ employees_db2[b] = employees_db1[b]
             /\ \A a \in Keys :
                   a \notin DOMAIN employees_db1
                       => a \notin DOMAIN employees_db2

=============================================================================
